---- MODULE Spec2Model ----
(***************************************************************************)
(* Browser pool of mcp-browser (src/src/browser_pool.py): BrowserInstance  *)
(* and BrowserPool as asyncio coroutines.  Every task (a client of the     *)
(* pool, the monitor task, the shutdown caller) owns a call stack of       *)
(* frames; a frame names the await (or the return point) the coroutine is  *)
(* suspended at.  The code between two awaits runs atomically, as it does  *)
(* on the asyncio event loop.                                              *)
(***************************************************************************)
EXTENDS Integers, Sequences, FiniteSets, TLC

\* ---------------------------------------------------------------- bounds
NumClients == 2       \* concurrent client tasks
MaxIds == 2           \* BrowserInstance objects alive at a time
MaxCtx == 1           \* distinct context ids a client may use

\* ------------------------------------------------------- program constants
MaxBrowsers == 1      \* max_browsers
IdleTimeout == 1      \* idle_timeout

Clients == 1..NumClients
MonTask == NumClients + 1
ShutTask == NumClients + 2
Tasks == 1..(NumClients + 2)
Ids == 1..MaxIds
CtxIds == 1..MaxCtx

VARIABLES
    browsers,       \* BrowserPool.browsers: the dict's keys in insertion order
    lock,           \* BrowserPool.lock: 0 when free, else the task holding it
    waiters,        \* BrowserPool.lock._waiters: the tasks queued for the lock
    shutting_down,  \* BrowserPool._shutting_down
    monitor,        \* BrowserPool._monitor_task_handle: "none", "running", "done"
    inst,           \* the BrowserInstance objects, by id; idle_time is time.time()
                    \* - last_used, 0 or IdleTimeout + 1
    env,            \* the driver's side: the browser process and what was asked of it
    stack,          \* per task: the frames of its coroutine, innermost first
    ret,            \* per task: what the callee that just returned gave its caller
    done,           \* the observed call that returned in the step just taken, if any
    direct,         \* the instances a caller constructed itself, without the pool
    config,         \* the arguments BrowserPool was constructed with
    over_limit,     \* psutil: memory or CPU usage is above max_memory_percent /
                    \* max_cpu_percent
    now,            \* time.time() as the rate limiter reads it, in seconds
    limiters,       \* RateLimiter.limiters: by (endpoint, client id), the requests
                    \* list of the SlidingWindowCounter, in the order of the appends
    retry,          \* the call of a function wrapped by with_retry(): its wrapper's
                    \* locals, and what the wrapped function did at each invocation
    sessions        \* one instance's contexts dict with the driver's context objects
                    \* in it, the objects alive in the driver, and the calls under way

vars == <<browsers, lock, waiters, shutting_down, monitor, inst, env, stack, ret, done,
          direct, config, over_limit, now, limiters, retry, sessions>>
\* what no coroutine of the pool or of an instance assigns
outside == <<direct, config, over_limit, now, limiters, retry, sessions>>
poolVars == <<browsers, lock, waiters, shutting_down, monitor>>

\* ---------------------------------------------------------------- helpers
InSeq(x, s) == \E k \in 1..Len(s) : s[k] = x
Remove(s, x) == SelectSeq(s, LAMBDA y : y # x)
Frame(pc, i, c, todo, err) == [pc |-> pc, i |-> i, c |-> c, todo |-> todo, err |-> err]
Event(t, op, val, i, c, note) ==
    [t |-> t, op |-> op, val |-> val, i |-> i, c |-> c, note |-> note]
NoEvent == Event(0, "none", "", 0, 0, "")
NoRet == [val |-> "", note |-> ""]
Top(t) == Head(stack[t])
At(t, p) == stack[t] # <<>> /\ Head(stack[t]).pc = p

\* the awaits at which a coroutine is really suspended (a CancelledError lands here)
AwaitPcs == {"gb_lock", "init_pw", "init_launch", "cc_new", "cc_undo", "xc_close",
             "cl_proc", "cl_pw", "cb_lock", "rl_lock", "sw_lock", "cu_lock", "st_lock",
             "cu_mon", "st_mon", "mon_sleep"}

\* the frames that hold a browser id (a string) and not the instance
IdPcs == {"cb_lock", "rl_ret"}

\* the tasks in the middle of code that runs without an await: the event loop runs
\* nothing else until they reach one
Urgent == {t \in Tasks : stack[t] # <<>> /\ Head(stack[t]).pc \notin AwaitPcs}

\* the ids some frame mentions
Mentioned(i) == \E t \in Tasks : \E k \in 1..Len(stack[t]) : stack[t][k].i = i

\* the instances neither a caller, nor the pool, nor any coroutine refers to any more
Referenced(i) ==
    \/ i \in direct
    \/ InSeq(i, browsers)
    \/ \E t \in Tasks : \E k \in 1..Len(stack[t]) :
          stack[t][k].i = i /\ stack[t][k].pc \notin IdPcs
Garbage == {i \in Ids : inst[i].made /\ ~Referenced(i)}

\* an instance a caller reaches: its own, or one the pool tracks
\* (self.browsers.get(browser_id))
HandedOut(i) == i \in direct \/ InSeq(i, browsers)

\* the event loop may start a call of task t, resume task t, resume it at p
Quiet == Urgent = {} /\ Garbage = {}
CanCall(t) == stack[t] = <<>> /\ Quiet
ResumedIn(t, ps) ==
    /\ stack[t] # <<>>
    /\ Head(stack[t]).pc \in ps
    /\ Urgent = {} \/ t \in Urgent
    /\ Garbage = {}
Resumed(t, p) == ResumedIn(t, {p})

\* the returns that done records: those of the pool's methods, and those of the methods
\* of an instance its caller constructed itself
InstanceOps == {"initialize", "close", "create_context", "close_context"}
Observed(op, i) == op \notin InstanceOps \/ i \in direct

\* a coroutine of task t returns (or raises) val to the frames in base
Returns(t, base, op, val, i, c, note) ==
    /\ stack' = [stack EXCEPT ![t] = base]
    /\ done' = IF Observed(op, i) THEN Event(t, op, val, i, c, note) ELSE NoEvent
    /\ ret' = [ret EXCEPT ![t] = IF base = <<>> THEN NoRet
                                 ELSE [val |-> val, note |-> note]]

\* BrowserInstance(instance_id) with the defaults of its other arguments; routed is the
\* set of contexts on which context.route("**/*", self._handle_route) was installed
NewInstance ==
    [made |-> TRUE, browser |-> FALSE, playwright |-> FALSE, is_closing |-> FALSE,
     contexts |-> <<>>, idle_time |-> 0, network_isolation |-> TRUE,
     allowed_domains |-> {}, blocked_domains |-> {}, routed |-> {}]
NoInstance == [NewInstance EXCEPT !.made = FALSE, !.network_isolation = FALSE]
\* BrowserPool(): the constructor's defaults, but for max_browsers
PoolConfig(n) ==
    [max_browsers |-> n, network_isolation |-> TRUE,
     allowed_domains |-> {}, blocked_domains |-> {}]
\* failed: the first teardown step of the instance's close() that the driver failed, if
\* any; it is recorded for the instances whose callers see close() return
NoEnv == [proc |-> "none", closes |-> 0, stops |-> 0, inits |-> 0, failed |-> ""]

\* the driver fails a step of the close() of instance i, whose record is e
Failed(i, e, step) ==
    IF Observed("close", i) /\ e.failed = "" THEN [e EXCEPT !.failed = step] ELSE e

\* an initialized instance with no context: self.contexts = {}, no context object alive
\* in the driver, no create_context() or close_context() under way
NoCall == [pc |-> "idle", id |-> 0, obj |-> 0]
NoneOpen ==
    [contexts |-> [c \in CtxIds |-> 0], live |-> {}, asked |-> {}, made |-> 0,
     call |-> [t \in Clients |-> NoCall]]

\* RateLimiter(): no counter yet (a function of the empty domain)
NoLimiters == [key \in {} |-> <<>>]
\* no call of a wrapped function is under way
NoRetry == [pc |-> "idle", max_retries |-> 0, attempt |-> 0, last_exception |-> "",
            invoked |-> <<>>, result |-> ""]

\* ============================================================ BrowserInstance

\* close(): "if self.is_closing: return"
AlreadyClosing_NoGuard(i) == FALSE
AlreadyClosing(i) == inst[i].is_closing

\* close_context(): "if context_id not in self.contexts"
KnownContext_Always(i, c) == TRUE
KnownContext(i, c) == InSeq(c, inst[i].contexts)

\* close_context(): the except branch, "still remove from tracking"
DropOnError_Keep(ctxs, c) == ctxs
DropOnError(ctxs, c) == Remove(ctxs, c)

\* the frame close() suspends at once its contexts are closed, or none when it is done
AfterContexts_DriverFirst(i, I, err) ==
    IF I.playwright THEN <<Frame("cl_pw", i, 0, <<>>, err)>>
    ELSE IF I.browser THEN <<Frame("cl_proc", i, 0, <<>>, err)>>
    ELSE <<>>
AfterContexts_StopOnError(i, I, err) ==
    IF err # "" THEN <<>>
    ELSE IF I.browser THEN <<Frame("cl_proc", i, 0, <<>>, err)>>
    ELSE IF I.playwright THEN <<Frame("cl_pw", i, 0, <<>>, err)>>
    ELSE <<>>
AfterContexts(i, I, err) ==
    IF I.browser THEN <<Frame("cl_proc", i, 0, <<>>, err)>>
    ELSE IF I.playwright THEN <<Frame("cl_pw", i, 0, <<>>, err)>>
    ELSE <<>>
CloseResult(err) == IF err = "" THEN "ok" ELSE "BROWSER_CLEANUP_FAILED"

\* the driver calls that close() issues when it suspends at the frame in fs
Asked(e, fs) ==
    IF fs = <<>> THEN e
    ELSE IF fs[1].pc = "cl_proc" THEN [e EXCEPT !.closes = @ + 1]
    ELSE IF fs[1].pc = "cl_pw" THEN [e EXCEPT !.stops = @ + 1]
    ELSE e

\* close() moves past its last context, or past the process, to frame nxt or to its end
CloseAdvance(t, i, nxt, err) ==
    IF nxt = <<>>
    THEN Returns(t, Tail(stack[t]), "close", CloseResult(err), i, 0, err)
    ELSE /\ stack' = [stack EXCEPT ![t] = nxt \o Tail(@)]
         /\ done' = NoEvent
         /\ UNCHANGED ret

\* "await <instance>.close()" issued by task t whose frames below the call are base
CallClose(t, i, base) ==
    IF AlreadyClosing(i)
    THEN /\ Returns(t, base, "close", "ok", i, 0, "already_closing")
         /\ UNCHANGED <<inst, env>>
    ELSE /\ inst' = [inst EXCEPT ![i].is_closing = TRUE]
         /\ stack' = [stack EXCEPT ![t] =
                <<Frame("cl_ctxs", i, 0, inst[i].contexts, "")>> \o base]
         /\ ret' = [ret EXCEPT ![t] = NoRet]
         /\ done' = NoEvent
         /\ UNCHANGED env

\* BrowserInstance.close() called by a client
Close(t, i) ==
    /\ CanCall(t)
    /\ HandedOut(i)
    /\ CallClose(t, i, <<>>)
    /\ UNCHANGED <<poolVars, outside>>

\* close_context(c) suspended in its awaits: every page.close(), then context.close()
ContextFrame(i, c) == Frame("xc_close", i, c, <<>>, "")

\* close(): the loop over context_ids, then on to the process and the driver
ClCtxs(t) ==
    /\ Resumed(t, "cl_ctxs")
    /\ LET f == Top(t)
           i == f.i
       IN IF f.todo # <<>>
          THEN LET c == Head(f.todo)
                   g == [f EXCEPT !.todo = Tail(@)]
               IN /\ stack' = [stack EXCEPT ![t] =
                         IF KnownContext(i, c) THEN <<ContextFrame(i, c), g>> \o Tail(@)
                         ELSE <<g>> \o Tail(@)]
                  /\ ret' = [ret EXCEPT ![t] = NoRet]
                  /\ done' = NoEvent
                  /\ UNCHANGED env
          ELSE LET nxt == AfterContexts(i, inst[i], f.err)
               IN /\ CloseAdvance(t, i, nxt, f.err)
                  /\ env' = [env EXCEPT ![i] = Asked(@, nxt)]
    /\ UNCHANGED <<poolVars, outside, inst>>

\* close(): "await asyncio.wait_for(self.browser.close(), 15.0)" ends
ClProc(t) ==
    /\ Resumed(t, "cl_proc")
    /\ \E ok \in BOOLEAN :
         LET f == Top(t)
             i == f.i
             err == IF f.err = "" /\ ~ok THEN "process" ELSE f.err
             I == [inst[i] EXCEPT !.browser = FALSE]
             nxt == AfterContexts(i, I, err)
         IN /\ inst' = [inst EXCEPT ![i] = I]
            /\ env' = [env EXCEPT ![i] =
                   Asked(IF ok THEN [@ EXCEPT !.proc = "closed"] ELSE Failed(i, @, "process"),
                         nxt)]
            /\ CloseAdvance(t, i, nxt, err)
    /\ UNCHANGED <<poolVars, outside>>

\* close(): "await asyncio.wait_for(self._playwright.stop(), 5.0)" ends
ClPw(t) ==
    /\ Resumed(t, "cl_pw")
    /\ \E ok \in BOOLEAN :
         LET f == Top(t)
             i == f.i
             err == IF f.err = "" /\ ~ok THEN "driver" ELSE f.err
         IN /\ inst' = [inst EXCEPT ![i].playwright = FALSE]
            /\ env' = IF ok THEN env ELSE [env EXCEPT ![i] = Failed(i, @, "driver")]
            /\ CloseAdvance(t, i, <<>>, err)
    /\ UNCHANGED <<poolVars, outside>>

\* BrowserInstance.close_context() called by a client
CloseContext(t, i, c) ==
    /\ CanCall(t)
    /\ HandedOut(i)
    /\ IF KnownContext(i, c)
       THEN /\ stack' = [stack EXCEPT ![t] = <<ContextFrame(i, c)>>]
            /\ done' = NoEvent
            /\ UNCHANGED ret
       ELSE Returns(t, <<>>, "close_context", "ok", i, c, "unknown_context")
    /\ UNCHANGED <<poolVars, outside, inst, env>>

\* close_context(): the page.close() awaits (an error there is logged and dropped) and
\* "await context.close()" end, then the del, or the except branch
XcClose(t) ==
    /\ Resumed(t, "xc_close")
    /\ \E out \in {"ok", "page_close_failed", "context_close_failed"} :
         LET f == Top(t)
             i == f.i
             c == f.c
         IN /\ inst' = IF out # "context_close_failed" /\ InSeq(c, inst[i].contexts)
                       THEN [inst EXCEPT ![i].contexts = Remove(@, c), ![i].idle_time = 0]
                       ELSE [inst EXCEPT ![i].contexts = DropOnError(@, c)]
            /\ env' = IF out = "context_close_failed" /\ inst[i].is_closing
                      THEN [env EXCEPT ![i] = Failed(i, @, "context")]
                      ELSE env
            /\ Returns(t, Tail(stack[t]), "close_context", "ok", i, c, out)
    /\ UNCHANGED <<poolVars, outside>>

\* create_context(): "if not self.browser"
NotInitialized_StartedDriver(i) == ~inst[i].playwright
NotInitialized(i) == ~inst[i].browser

\* BrowserInstance.create_context() called by a client
CreateContext(t, i, c) ==
    /\ CanCall(t)
    /\ HandedOut(i)
    /\ IF NotInitialized(i)
       THEN Returns(t, <<>>, "create_context", "BROWSER_NOT_INITIALIZED", i, c, "")
       ELSE /\ stack' = [stack EXCEPT ![t] = <<Frame("cc_new", i, c, <<>>, "")>>]
            /\ done' = NoEvent
            /\ UNCHANGED ret
    /\ UNCHANGED <<poolVars, outside, inst, env>>

\* create_context(): the guard of the block that installs the request interception,
\* "if False:", in which the call of context.route() is commented out
InterceptionEnabled == FALSE

\* create_context(): "await self.browser.new_context()" ends
CcNew(t) ==
    /\ Resumed(t, "cc_new")
    /\ \E out \in {"ok", "failed", "partial"} :
         LET f == Top(t)
             i == f.i
             c == f.c
         IN CASE out = "ok" ->
                   /\ inst' = [inst EXCEPT
                         ![i].contexts = IF InSeq(c, @) THEN @ ELSE Append(@, c),
                         ![i].routed = IF InterceptionEnabled /\ inst[i].network_isolation
                                       THEN @ \cup {c} ELSE @,
                         ![i].idle_time = 0]
                   /\ Returns(t, Tail(stack[t]), "create_context", "ok", i, c, "")
              [] out = "failed" ->
                   /\ Returns(t, Tail(stack[t]), "create_context",
                              "CONTEXT_CREATION_FAILED", i, c, "")
                   /\ UNCHANGED inst
              [] out = "partial" ->
                   /\ stack' = [stack EXCEPT ![t] = <<[f EXCEPT !.pc = "cc_undo"]>> \o Tail(@)]
                   /\ done' = NoEvent
                   /\ UNCHANGED <<inst, ret>>
    /\ UNCHANGED <<poolVars, outside, env>>

\* create_context(): the except branch closed the partly created context
CcUndo(t) ==
    /\ Resumed(t, "cc_undo")
    /\ Returns(t, Tail(stack[t]), "create_context", "CONTEXT_CREATION_FAILED",
               Top(t).i, Top(t).c, "undone")
    /\ UNCHANGED <<poolVars, outside, inst, env>>

\* "await <instance>.initialize()" issued by task t whose frames below are base
CallInitialize(t, i, base) ==
    /\ stack' = [stack EXCEPT ![t] = <<Frame("init_pw", i, 0, <<>>, "")>> \o base]
    /\ env' = [env EXCEPT ![i].inits = @ + 1]
    /\ done' = NoEvent
    /\ UNCHANGED ret

\* BrowserInstance.initialize() called by a client on an instance it constructed
Initialize(t, i) ==
    /\ CanCall(t)
    /\ HandedOut(i)
    /\ env[i].inits = 0
    /\ CallInitialize(t, i, <<>>)
    /\ UNCHANGED <<poolVars, outside, inst>>

\* initialize(): "await async_playwright().start()" ends
InitPw(t) ==
    /\ Resumed(t, "init_pw")
    /\ LET f == Top(t)
           i == f.i
       IN \E ok \in BOOLEAN :
            IF ok
            THEN /\ inst' = [inst EXCEPT ![i].playwright = TRUE]
                 /\ stack' = [stack EXCEPT ![t] = <<[f EXCEPT !.pc = "init_launch"]>> \o Tail(@)]
                 /\ done' = NoEvent
                 /\ UNCHANGED <<ret, env>>
            ELSE CallClose(t, i, <<[f EXCEPT !.pc = "init_fail"]>> \o Tail(stack[t]))
    /\ UNCHANGED <<poolVars, outside>>

\* initialize(): "await self._playwright.chromium.launch()" ends
InitLaunch(t) ==
    /\ Resumed(t, "init_launch")
    /\ LET f == Top(t)
           i == f.i
       IN \E ok \in BOOLEAN :
            IF ok
            THEN /\ inst' = [inst EXCEPT ![i].browser = TRUE]
                 /\ env' = [env EXCEPT ![i].proc = "running"]
                 /\ Returns(t, Tail(stack[t]), "initialize", "ok", i, 0, "")
            ELSE CallClose(t, i, <<[f EXCEPT !.pc = "init_fail"]>> \o Tail(stack[t]))
    /\ UNCHANGED <<poolVars, outside>>

\* initialize(): the except branch, after its "await self.close()"
InitFail(t) ==
    /\ Resumed(t, "init_fail")
    /\ Returns(t, Tail(stack[t]), "initialize",
               IF ret[t].val = "ok" THEN "BROWSER_INITIALIZATION_FAILED" ELSE ret[t].val,
               Top(t).i, 0, "")
    /\ UNCHANGED <<poolVars, outside, inst, env>>

\* time.time() moves on by more than idle_timeout; a shorter advance changes no
\* comparison the code makes
Ticking(i) == inst[i].made /\ inst[i].idle_time <= IdleTimeout
Tick ==
    /\ Quiet
    /\ \E i \in Ids : Ticking(i)
    /\ inst' = [i \in Ids |-> IF Ticking(i)
                                THEN [inst[i] EXCEPT !.idle_time = IdleTimeout + 1]
                                ELSE inst[i]]
    /\ done' = NoEvent
    /\ UNCHANGED <<poolVars, outside, env, stack, ret>>

\* the system's memory or CPU usage crosses its ceiling, upwards or downwards
Load ==
    /\ Quiet
    /\ over_limit' = ~over_limit
    /\ done' = NoEvent
    /\ UNCHANGED <<poolVars, sessions, direct, config, now, limiters, retry, inst, env, stack, ret>>

\* ------------------------------------------------ one instance, used directly
InstInit ==
    /\ browsers = <<>>
    /\ lock = 0
    /\ waiters = <<>>
    /\ shutting_down = FALSE
    /\ monitor = "none"
    /\ inst = [i \in Ids |-> IF i = 1 THEN NewInstance ELSE NoInstance]
    /\ env = [i \in Ids |-> NoEnv]
    /\ stack = [t \in Tasks |-> <<>>]
    /\ ret = [t \in Tasks |-> NoRet]
    /\ done = NoEvent
    /\ direct = {1}
    /\ config = PoolConfig(MaxBrowsers)
    /\ over_limit = FALSE
    /\ now = 0
    /\ limiters = NoLimiters
    /\ retry = NoRetry
    /\ sessions = NoneOpen

InstNext ==
    \/ \E t \in Clients : Initialize(t, 1)
    \/ \E t \in Clients : Close(t, 1)
    \/ \E t \in Clients, c \in CtxIds : CreateContext(t, 1, c)
    \/ \E t \in Clients, c \in CtxIds : CloseContext(t, 1, c)
    \/ \E t \in Clients : InitPw(t)
    \/ \E t \in Clients : InitLaunch(t)
    \/ \E t \in Clients : InitFail(t)
    \/ \E t \in Clients : CcNew(t)
    \/ \E t \in Clients : CcUndo(t)
    \/ \E t \in Clients : XcClose(t)
    \/ \E t \in Clients : ClCtxs(t)
    \/ \E t \in Clients : ClProc(t)
    \/ \E t \in Clients : ClPw(t)
    \/ Tick

InstSpec == InstInit /\ [][InstNext]_vars

\* ================================================================ BrowserPool

\* get_browser(): "if not instance.contexts and not instance.is_closing"
IsIdle_Never(i) == FALSE
IsIdle_IgnoreContexts(i) == ~inst[i].is_closing
IsIdle(i) == inst[i].contexts = <<>> /\ ~inst[i].is_closing

\* get_browser(): the first idle instance in the dict's order, 0 when there is none
FirstIdle ==
    LET ks == {k \in 1..Len(browsers) : IsIdle(browsers[k])}
    IN IF ks = {} THEN 0
       ELSE browsers[CHOOSE k \in ks : \A j \in ks : k <= j]

\* get_browser(): "if len(self.browsers) >= self.max_browsers"
AtCapacity_OffByOne == Len(browsers) > config.max_browsers
AtCapacity == Len(browsers) >= config.max_browsers

\* get_browser(): the try body got past "await new_instance.initialize()"
InitSucceeded_Any(r) == TRUE
InitSucceeded(r) == r.val = "ok"

\* close_browser(): "del self.browsers[browser_id]", whatever close() did (r)
Untrack_OnSuccess(b, i, r) == IF r.val = "ok" THEN Remove(b, i) ELSE b
Untrack(b, i, r) == Remove(b, i)

\* _close_idle_browsers(): browsers_to_close
IdleExpired(i) ==
    /\ ~inst[i].is_closing
    /\ inst[i].contexts = <<>>
    /\ inst[i].idle_time > IdleTimeout
BrowsersToClose == SelectSeq(browsers, IdleExpired)

\* BrowserPool.__init__: "self.network_isolation = False # <-- Force to False", whatever
\* the argument
PoolIsolation(requested) == FALSE

\* get_browser(): BrowserInstance(browser_id, network_isolation=self.network_isolation,
\* allowed_domains=self.allowed_domains, blocked_domains=self.blocked_domains)
PoolInstance ==
    [NewInstance EXCEPT !.network_isolation = PoolIsolation(config.network_isolation),
                        !.allowed_domains = config.allowed_domains,
                        !.blocked_domains = config.blocked_domains]

\* get_browser(): str(uuid.uuid4()), an id nothing bears or mentions; 0 when all are in use
FreshId ==
    LET free == {i \in Ids : ~inst[i].made /\ ~Mentioned(i)}
    IN IF free = {} THEN 0 ELSE CHOOSE i \in free : \A j \in free : i <= j

\* "async with self.lock" with the lock at L and its queue W: asyncio.Lock.acquire() takes
\* a free lock at once if nobody queues for it, and queues the task otherwise
LockFree(L, W) == L = 0 /\ W = <<>>
Waits(t, frames, L, W) ==
    /\ stack' = [stack EXCEPT ![t] = frames]
    /\ lock' = L
    /\ waiters' = Append(W, t)
    /\ ret' = [ret EXCEPT ![t] = NoRet]
    /\ done' = NoEvent
    /\ UNCHANGED <<browsers, inst, env>>

\* asyncio.Lock.release() woke task t, the first of the queue
Woken(t) == lock = 0 /\ waiters # <<>> /\ Head(waiters) = t

\* get_browser() under the lock: reuse, refuse, or construct and initialize
GbBody(t, W) ==
    /\ waiters' = W
    /\ IF FirstIdle # 0
       THEN /\ inst' = [inst EXCEPT ![FirstIdle].idle_time = 0]
            /\ lock' = 0
            /\ Returns(t, <<>>, "get_browser", "ok", FirstIdle, 0, "reused")
            /\ UNCHANGED env
       ELSE IF AtCapacity
       THEN /\ lock' = 0
            /\ Returns(t, <<>>, "get_browser", "MAX_BROWSERS_REACHED", 0, 0, "")
            /\ UNCHANGED <<inst, env>>
       ELSE /\ FreshId # 0
            /\ lock' = t
            /\ inst' = [inst EXCEPT ![FreshId] = PoolInstance]
            /\ CallInitialize(t, FreshId, <<Frame("gb_init", FreshId, 0, <<>>, "")>>)
    /\ UNCHANGED browsers

\* BrowserPool.get_browser() called by a client
GetBrowser(t) ==
    /\ CanCall(t)
    /\ IF LockFree(lock, waiters) THEN GbBody(t, waiters)
       ELSE Waits(t, <<Frame("gb_lock", 0, 0, <<>>, "")>>, lock, waiters)
    /\ UNCHANGED <<outside, shutting_down, monitor>>

\* get_browser(): the queued task gets the lock
GbAdmit(t) ==
    /\ Resumed(t, "gb_lock")
    /\ Woken(t)
    /\ GbBody(t, Tail(waiters))
    /\ UNCHANGED <<outside, shutting_down, monitor>>

\* get_browser(): initialize() returned or raised
GbInit(t) ==
    /\ Resumed(t, "gb_init")
    /\ LET i == Top(t).i
       IN IF InitSucceeded(ret[t])
          THEN /\ browsers' = Append(browsers, i)
               /\ lock' = 0
               /\ Returns(t, <<>>, "get_browser", "ok", i, 0, "created")
               /\ UNCHANGED <<inst, env>>
          ELSE /\ CallClose(t, i, <<Frame("gb_fail", i, 0, <<>>, "")>>)
               /\ UNCHANGED <<browsers, lock>>
    /\ UNCHANGED <<outside, waiters, shutting_down, monitor>>

\* get_browser(): the except branch, after its "await new_instance.close()"
GbFail(t) ==
    /\ Resumed(t, "gb_fail")
    /\ lock' = 0
    /\ Returns(t, <<>>, "get_browser", "BROWSER_INITIALIZATION_FAILED", Top(t).i, 0, "")
    /\ UNCHANGED <<outside, browsers, waiters, shutting_down, monitor, inst, env>>

\* close_browser(i) under the lock: close the instance under wait_for(10.0), if tracked
CbBody(t, i, base, W) ==
    /\ waiters' = W
    /\ IF InSeq(i, browsers)
       THEN /\ lock' = t
            /\ CallClose(t, i, <<Frame("cb_wait", i, 0, <<>>, "")>> \o base)
       ELSE /\ lock' = 0
            /\ Returns(t, base, "close_browser", "ok", i, 0, "not_found")
            /\ UNCHANGED <<inst, env>>
    /\ UNCHANGED browsers

\* "await self.close_browser(i)" issued by task t whose frames below the call are base
EnterCloseBrowser(t, i, base, L, W) ==
    IF LockFree(L, W) THEN CbBody(t, i, base, W)
    ELSE Waits(t, <<Frame("cb_lock", i, 0, <<>>, "")>> \o base, L, W)

\* BrowserPool.close_browser() called by a client, with a tracked id or an unknown one (0)
CloseBrowser(t, i) ==
    /\ CanCall(t)
    /\ i = 0 \/ InSeq(i, browsers)
    /\ EnterCloseBrowser(t, i, <<>>, lock, waiters)
    /\ UNCHANGED <<outside, shutting_down, monitor>>

\* close_browser(): the queued task gets the lock
CbLock(t) ==
    /\ Resumed(t, "cb_lock")
    /\ Woken(t)
    /\ CbBody(t, Top(t).i, Tail(stack[t]), Tail(waiters))
    /\ UNCHANGED <<outside, shutting_down, monitor>>

\* what a CancelledError leaves behind when it lands in close() at frame f: the finally clauses
Cancelled(I, f) ==
    IF f.pc = "cl_proc" THEN [I EXCEPT !.browser = FALSE]
    ELSE IF f.pc = "cl_pw" THEN [I EXCEPT !.playwright = FALSE]
    ELSE I

RECURSIVE DropTo(_, _)
DropTo(s, p) == IF s = <<>> \/ Head(s).pc = p THEN s ELSE DropTo(Tail(s), p)

\* close_browser(): wait_for(browser.close(), 10.0) times out and cancels close()
CbTimeout(t) ==
    /\ ResumedIn(t, {"xc_close", "cl_proc", "cl_pw"})
    /\ DropTo(stack[t], "cb_wait") # <<>>
    /\ inst' = [inst EXCEPT ![Top(t).i] = Cancelled(@, Top(t))]
    /\ stack' = [stack EXCEPT ![t] = DropTo(@, "cb_wait")]
    /\ ret' = [ret EXCEPT ![t] = [val |-> "timeout", note |-> ""]]
    /\ done' = NoEvent
    /\ UNCHANGED <<poolVars, outside, env>>

\* close_browser(): what its caller gets when close() gave r: the except clauses around
\* wait_for() and around the lock log the error and raise nothing
Swallowed_Reraised(r) == IF r.val = "timeout" THEN "TimeoutError" ELSE r.val
Swallowed(r) == "ok"

\* close_browser(): close() returned, raised or timed out; untrack and release the lock
CbWait(t) ==
    /\ Resumed(t, "cb_wait")
    /\ LET i == Top(t).i
       IN /\ browsers' = Untrack(browsers, i, ret[t])
          /\ lock' = 0
          /\ Returns(t, Tail(stack[t]), "close_browser", Swallowed(ret[t]), i, 0,
                     IF ret[t].val = "ok" THEN "closed"
                     ELSE IF ret[t].val = "timeout" THEN "timeout" ELSE "close_failed")
    /\ UNCHANGED <<outside, waiters, shutting_down, monitor, inst, env>>

\* start_monitoring(): "if self._monitor_task_handle is None or
\* self._monitor_task_handle.done()"; otherwise the call does nothing
HandleDone_Ignored == TRUE
HandleDone == monitor \in {"none", "done"}

\* start_monitoring()
StartMonitoring ==
    /\ Quiet
    /\ HandleDone
    /\ shutting_down' = FALSE
    /\ monitor' = "running"
    /\ stack' = [stack EXCEPT ![MonTask] = <<Frame("mon_sleep", 0, 0, <<>>, "")>>]
    /\ done' = NoEvent
    /\ UNCHANGED <<outside, browsers, lock, waiters, inst, env, ret>>

\* _monitor_task(): back to "await asyncio.sleep(self.monitor_interval)"
Sleeps(t) ==
    /\ stack' = [stack EXCEPT ![t] = <<Frame("mon_sleep", 0, 0, <<>>, "")>>]
    /\ ret' = [ret EXCEPT ![t] = NoRet]
    /\ done' = Event(t, "_close_idle_browsers", "ok", 0, 0, "")

\* _close_idle_browsers() under the lock, which it keeps while it closes the idle browsers
SwBody(t, W) ==
    IF BrowsersToClose = <<>>
    THEN /\ lock' = 0
         /\ waiters' = W
         /\ Sleeps(t)
         /\ UNCHANGED <<browsers, inst, env>>
    ELSE EnterCloseBrowser(t, Head(BrowsersToClose),
                           <<Frame("sw_loop", 0, 0, Tail(BrowsersToClose), "")>>, t, W)

\* "await self._close_idle_browsers()"
EnterSweep_Recheck(t, L, W) ==
    IF over_limit /\ browsers # <<>> /\ LockFree(L, W)
    THEN EnterCloseBrowser(t, Head(browsers),
                           <<Frame("rl_ret", Head(browsers), 0, <<>>, "")>>, 0, W)
    ELSE IF LockFree(L, W) THEN SwBody(t, W)
    ELSE Waits(t, <<Frame("sw_lock", 0, 0, <<>>, "")>>, L, W)
EnterSweep(t, L, W) ==
    IF LockFree(L, W) THEN SwBody(t, W)
    ELSE Waits(t, <<Frame("sw_lock", 0, 0, <<>>, "")>>, L, W)

\* _check_resource_limits() over its limits: under the lock, pick the first browser of
\* the dict; release the lock; close that browser; then the monitor goes on to the sweep
RlBody(t, W) ==
    IF browsers # <<>>
    THEN EnterCloseBrowser(t, Head(browsers),
                           <<Frame("rl_ret", Head(browsers), 0, <<>>, "")>>, 0, W)
    ELSE EnterSweep(t, 0, W)

\* _monitor_task(): the sleep ends; leave the loop, or sample the system metrics
MonWake(t) ==
    /\ t = MonTask
    /\ Resumed(t, "mon_sleep")
    /\ IF shutting_down
       THEN /\ monitor' = "done"
            /\ Returns(t, <<>>, "_monitor_task", "ok", 0, 0, "")
            /\ UNCHANGED <<browsers, lock, waiters, inst, env>>
       ELSE /\ LET limit_exceeded == over_limit
               IN IF ~limit_exceeded THEN EnterSweep(t, lock, waiters)
                  ELSE IF LockFree(lock, waiters) THEN RlBody(t, waiters)
                  ELSE Waits(t, <<Frame("rl_lock", 0, 0, <<>>, "")>>, lock, waiters)
            /\ UNCHANGED monitor
    /\ UNCHANGED <<outside, shutting_down>>

\* _check_resource_limits(): the queued monitor gets the lock
RlLock(t) ==
    /\ Resumed(t, "rl_lock")
    /\ Woken(t)
    /\ RlBody(t, Tail(waiters))
    /\ UNCHANGED <<outside, shutting_down, monitor>>

\* _close_idle_browsers(): the queued monitor gets the lock
SwLock(t) ==
    /\ Resumed(t, "sw_lock")
    /\ Woken(t)
    /\ SwBody(t, Tail(waiters))
    /\ UNCHANGED <<outside, shutting_down, monitor>>

\* the caller of a nested close_browser() goes on: _check_resource_limits() returns
\* False and the sweep starts; the loops of _close_idle_browsers(), cleanup() and stop()
\* take their next browser, or end and release the lock
AfterCloseBrowser(t) ==
    /\ ResumedIn(t, {"rl_ret", "sw_loop", "cu_loop", "st_loop"})
    /\ LET f == Top(t)
           rest == [f EXCEPT !.todo = Tail(@)]
       IN IF f.pc = "rl_ret" THEN EnterSweep(t, lock, waiters)
          ELSE IF f.todo # <<>>
          THEN IF f.pc = "cu_loop" /\ ~InSeq(Head(f.todo), browsers)
               THEN /\ stack' = [stack EXCEPT ![t] = <<rest>>]
                    /\ ret' = [ret EXCEPT ![t] = NoRet]
                    /\ done' = NoEvent
                    /\ UNCHANGED <<browsers, lock, waiters, inst, env>>
               ELSE EnterCloseBrowser(t, Head(f.todo), <<rest>>, lock, waiters)
          ELSE /\ browsers' = IF f.pc = "cu_loop" THEN <<>> ELSE browsers
               /\ lock' = 0
               /\ IF f.pc = "sw_loop" THEN Sleeps(t)
                  ELSE Returns(t, <<>>, IF f.pc = "cu_loop" THEN "cleanup" ELSE "stop",
                               "ok", 0, 0, "")
               /\ UNCHANGED <<waiters, inst, env>>
    /\ UNCHANGED <<outside, shutting_down, monitor>>

\* cleanup() and stop() under the lock, which they keep while they close every browser
ShutBody(t, op, W) ==
    IF browsers = <<>>
    THEN /\ lock' = 0
         /\ waiters' = W
         /\ Returns(t, <<>>, op, "ok", 0, 0, "")
         /\ UNCHANGED <<browsers, inst, env>>
    ELSE EnterCloseBrowser(t, Head(browsers),
            <<Frame(IF op = "cleanup" THEN "cu_loop" ELSE "st_loop", 0, 0,
                    Tail(browsers), "")>>, t, W)

\* cleanup() and stop(): "async with self.lock"
EnterShut(t, op, L, W) ==
    IF LockFree(L, W) THEN ShutBody(t, op, W)
    ELSE Waits(t, <<Frame(IF op = "cleanup" THEN "cu_lock" ELSE "st_lock", 0, 0, <<>>, "")>>,
               L, W)

\* cleanup() and stop(): cancel the running monitor and await it, the caller suspended in
\* frames; the CancelledError unwinds _monitor_task() out of whatever it awaits
CancelMonitor(t, frames) ==
    /\ monitor' = "done"
    /\ inst' = IF Top(MonTask).i = 0 \/ Top(MonTask).pc \in IdPcs THEN inst
               ELSE [inst EXCEPT ![Top(MonTask).i] = Cancelled(@, Top(MonTask))]
    /\ lock' = IF lock = MonTask THEN 0 ELSE lock
    /\ waiters' = Remove(waiters, MonTask)
    /\ stack' = [stack EXCEPT ![MonTask] = <<>>, ![t] = frames]
    /\ ret' = [ret EXCEPT ![MonTask] = NoRet]
    /\ done' = NoEvent
    /\ UNCHANGED <<browsers, env>>

\* BrowserPool.cleanup(): flag the shutdown, stop the monitor, close every browser
Cleanup(t) ==
    /\ CanCall(t)
    /\ shutting_down' = TRUE
    /\ IF monitor = "running"
       THEN CancelMonitor(t, <<Frame("cu_mon", 0, 0, <<>>, "")>>)
       ELSE /\ EnterShut(t, "cleanup", lock, waiters)
            /\ UNCHANGED monitor
    /\ UNCHANGED outside

\* BrowserPool.stop(): stop the monitor, close every browser
Stop(t) ==
    /\ CanCall(t)
    /\ IF monitor = "running"
       THEN CancelMonitor(t, <<Frame("st_mon", 0, 0, <<>>, "")>>)
       ELSE /\ EnterShut(t, "stop", lock, waiters)
            /\ UNCHANGED monitor
    /\ UNCHANGED <<outside, shutting_down>>

\* cleanup() and stop(): the await of the cancelled monitor task ends
ShutAwaited(t) ==
    /\ ResumedIn(t, {"cu_mon", "st_mon"})
    /\ EnterShut(t, IF Top(t).pc = "cu_mon" THEN "cleanup" ELSE "stop", lock, waiters)
    /\ UNCHANGED <<outside, shutting_down, monitor>>

\* cleanup() and stop(): the queued task gets the lock
ShutLock(t) ==
    /\ ResumedIn(t, {"cu_lock", "st_lock"})
    /\ Woken(t)
    /\ ShutBody(t, IF Top(t).pc = "cu_lock" THEN "cleanup" ELSE "stop", Tail(waiters))
    /\ UNCHANGED <<outside, shutting_down, monitor>>

\* ------------------------------------------------------------------ the pool
Init ==
    /\ browsers = <<>>
    /\ lock = 0
    /\ waiters = <<>>
    /\ shutting_down = FALSE
    /\ monitor = "none"
    /\ inst = [i \in Ids |-> NoInstance]
    /\ env = [i \in Ids |-> NoEnv]
    /\ stack = [t \in Tasks |-> <<>>]
    /\ ret = [t \in Tasks |-> NoRet]
    /\ done = NoEvent
    /\ direct = {}
    /\ config = PoolConfig(MaxBrowsers)
    /\ over_limit = FALSE
    /\ now = 0
    /\ limiters = NoLimiters
    /\ retry = NoRetry
    /\ sessions = NoneOpen

\* the runtime frees the unreferenced instances; their ids stand for fresh uuids again
Forget ==
    /\ Garbage # {}
    /\ inst' = [i \in Ids |-> IF i \in Garbage THEN NoInstance ELSE inst[i]]
    /\ env' = [i \in Ids |-> IF i \in Garbage THEN NoEnv ELSE env[i]]
    /\ done' = NoEvent
    /\ UNCHANGED <<poolVars, outside, stack, ret>>

\* the steps a task takes inside the coroutines it has called
PoolStep(t) ==
    \/ GbAdmit(t)
    \/ GbInit(t)
    \/ GbFail(t)
    \/ InitPw(t)
    \/ InitLaunch(t)
    \/ InitFail(t)
    \/ CcNew(t)
    \/ CcUndo(t)
    \/ XcClose(t)
    \/ ClCtxs(t)
    \/ ClProc(t)
    \/ ClPw(t)
    \/ CbLock(t)
    \/ CbTimeout(t)
    \/ CbWait(t)
    \/ MonWake(t)
    \/ RlLock(t)
    \/ SwLock(t)
    \/ AfterCloseBrowser(t)

\* the pool in service: the clients and the monitor task
Next ==
    \/ Forget
    \/ StartMonitoring
    \/ Tick
    \/ Load
    \/ \E t \in Clients : GetBrowser(t)
    \/ \E t \in Clients, i \in 0..MaxIds : CloseBrowser(t, i)
    \/ \E t \in Clients, i \in Ids, c \in CtxIds : CreateContext(t, i, c)
    \/ \E t \in Clients, i \in Ids, c \in CtxIds : CloseContext(t, i, c)
    \/ \E t \in Clients \cup {MonTask} : PoolStep(t)

Spec == Init /\ [][Next]_vars

\* the pool shut down, by cleanup() or by stop(), while one client and the monitor run
ShutNext ==
    \/ Forget
    \/ StartMonitoring
    \/ Tick
    \/ Load
    \/ GetBrowser(1)
    \/ \E i \in 0..MaxIds : CloseBrowser(1, i)
    \/ \E i \in Ids, c \in CtxIds : CreateContext(1, i, c)
    \/ \E i \in Ids, c \in CtxIds : CloseContext(1, i, c)
    \/ Cleanup(ShutTask)
    \/ Stop(ShutTask)
    \/ ShutAwaited(ShutTask)
    \/ ShutLock(ShutTask)
    \/ \E t \in {1, MonTask, ShutTask} : PoolStep(t)

ShutSpec == Init /\ [][ShutNext]_vars

\* ------------------------------------------- one instance, only ever closed
\* the contexts an instance may hold when its callers start to close it
CtxSeqs ==
    {<<>>} \cup {<<c>> : c \in CtxIds} \cup {x \in CtxIds \X CtxIds : x[1] # x[2]}

\* an instance freshly constructed, or initialized and holding some contexts
CloseInit ==
    /\ browsers = <<>>
    /\ lock = 0
    /\ waiters = <<>>
    /\ shutting_down = FALSE
    /\ monitor = "none"
    /\ \E up \in BOOLEAN, ctxs \in CtxSeqs :
          /\ ~up => ctxs = <<>>
          /\ inst = [i \in Ids |->
                IF i # 1 THEN NoInstance
                ELSE [NewInstance EXCEPT !.browser = up, !.playwright = up,
                                         !.contexts = ctxs]]
          /\ env = [i \in Ids |->
                IF i = 1 /\ up THEN [NoEnv EXCEPT !.proc = "running", !.inits = 1]
                ELSE NoEnv]
    /\ stack = [t \in Tasks |-> <<>>]
    /\ ret = [t \in Tasks |-> NoRet]
    /\ done = NoEvent
    /\ direct = {1}
    /\ config = PoolConfig(MaxBrowsers)
    /\ over_limit = FALSE
    /\ now = 0
    /\ limiters = NoLimiters
    /\ retry = NoRetry
    /\ sessions = NoneOpen

CloseNext ==
    \/ \E t \in Clients : Close(t, 1)
    \/ \E t \in Clients : ClCtxs(t)
    \/ \E t \in Clients : XcClose(t)
    \/ \E t \in Clients : ClProc(t)
    \/ \E t \in Clients : ClPw(t)
    \/ Tick

CloseSpec == CloseInit /\ [][CloseNext]_vars

\* ================================================================ properties

\* C1: whatever the clients' get_browser() and close_browser() calls and the monitor's
\* iterations do, and however they interleave, the pool never tracks more than
\* max_browsers instances.
C1_AtMostMaxBrowsers == Len(browsers) <= config.max_browsers

\* the pool is full while the monitor closes a browser and a get_browser() queues
C1_Witness ==
    /\ Len(browsers) = MaxBrowsers
    /\ lock = MonTask
    /\ \E t \in Clients : At(t, "gb_lock")

\* C2: when close_browser(i) returns, i is not tracked by the pool, whether close()
\* returned, raised, or was cut off by the timeout.
C2_Untracked == done.op = "close_browser" => ~InSeq(done.i, browsers)

\* a client's close_browser() returned after its close() timed out
C2_Witness ==
    /\ done.op = "close_browser"
    /\ done.note = "timeout"
    /\ done.t \in Clients

\* the step in which the get_browser() of task t has the lock and runs
GbRuns(t) ==
    \/ At(t, "gb_lock") /\ stack'[t] # stack[t]
    \/ /\ stack[t] = <<>>
       /\ \/ done'.op = "get_browser" /\ done'.t = t
          \/ stack'[t] # <<>> /\ stack'[t][Len(stack'[t])].pc = "gb_init"

\* some tracked instance has no context and is not closing
SomeIdle ==
    \E k \in 1..Len(browsers) :
        inst[browsers[k]].contexts = <<>> /\ ~inst[browsers[k]].is_closing

\* C3: a get_browser() that runs when the pool tracks max_browsers instances, none of
\* them idle, raises MAX_BROWSERS_REACHED in that very step, waiting for no capacity,
\* and leaves the tracked instances as they were.
C3_Refuses ==
    [][\A t \in Clients :
         (GbRuns(t) /\ Len(browsers) = MaxBrowsers /\ ~SomeIdle) =>
            /\ done' = Event(t, "get_browser", "MAX_BROWSERS_REACHED", 0, 0, "")
            /\ stack'[t] = <<>>
            /\ browsers' = browsers
            /\ lock' = 0]_vars

\* a get_browser() was refused at a full pool without an idle instance
C3_Witness ==
    /\ done.op = "get_browser"
    /\ done.val = "MAX_BROWSERS_REACHED"
    /\ Len(browsers) = MaxBrowsers
    /\ ~SomeIdle

C5_ShutdownNotStuck ==
    ~(/\ At(ShutTask, "cb_lock")
      /\ lock = ShutTask
      /\ InSeq(Top(ShutTask).i, browsers))

\* C6 (what it needs): the monitor's sweep never awaits the pool's lock while the lock
\* is its own; in that state the idle instance it was to close stays tracked, tick
\* after tick.
C6_SweepNotStuck ==
    ~(/\ At(MonTask, "cb_lock")
      /\ lock = MonTask
      /\ InSeq(Top(MonTask).i, browsers)
      /\ IdleExpired(Top(MonTask).i))

\* C7: the pool only ever tracks instances whose browser was launched, and a
\* get_browser() whose initialize() failed raises BROWSER_INITIALIZATION_FAILED with
\* the instance untracked and torn down as far as it was built: close() was entered
\* and the instance holds neither the browser nor the driver.
C7_InitFailure ==
    /\ \A k \in 1..Len(browsers) : env[browsers[k]].proc # "none"
    /\ \A t \in Clients :
          (At(t, "gb_init") /\ ret[t].val # "ok") =>
             /\ ~InSeq(Top(t).i, browsers)
             /\ inst[Top(t).i].is_closing
    /\ (done.op = "get_browser" /\ done.val \notin {"ok", "MAX_BROWSERS_REACHED"}) =>
          /\ done.val = "BROWSER_INITIALIZATION_FAILED"
          /\ ~InSeq(done.i, browsers)
          /\ inst[done.i].is_closing
          /\ ~inst[done.i].browser
          /\ ~inst[done.i].playwright

\* a get_browser() failed after the driver had started and was stopped again
C7_Witness ==
    /\ done.op = "get_browser"
    /\ done.val = "BROWSER_INITIALIZATION_FAILED"
    /\ env[done.i].stops = 1
    /\ ~InSeq(done.i, browsers)

\* C8: however many close() calls an instance gets, one after another or at once, the
\* browser process is asked to close at most once and the driver to stop at most once,
\* and once every call has returned the instance holds no context, no browser handle
\* and no driver handle.
C8_CloseOnce ==
    /\ env[1].closes <= 1
    /\ env[1].stops <= 1
    /\ (inst[1].is_closing /\ \A t \in Clients : stack[t] = <<>>) =>
          /\ inst[1].contexts = <<>>
          /\ ~inst[1].browser
          /\ ~inst[1].playwright

\* a second close() returned after the first one closed the process and the driver
C8_Witness ==
    /\ done.op = "close"
    /\ done.note = "already_closing"
    /\ env[1].closes = 1
    /\ env[1].stops = 1
    /\ \A t \in Clients : stack[t] = <<>>

\* C9: when close_context(c) returns after it found c in the contexts map, c is out of
\* the map, also when a page or the context failed to close, and nothing was raised.
C9_ContextDropped ==
    (done.op = "close_context" /\ done.note # "unknown_context") =>
        /\ ~InSeq(done.c, inst[done.i].contexts)
        /\ done.val = "ok"

\* close_context() returned after context.close() raised
C9_Witness ==
    /\ done.op = "close_context"
    /\ done.note = "context_close_failed"
    /\ done.val = "ok"

\* C10: close_context(c) with c not in the contexts map returns at once, raising
\* nothing and changing neither the instance (its contexts, its last_used) nor the
\* driver; only a c in the map makes close_context() close anything.
C10_UnknownIsNoOp ==
    [][/\ (done'.op = "close_context" /\ done'.note = "unknown_context") =>
            /\ done'.val = "ok"
            /\ ~InSeq(done'.c, inst[done'.i].contexts)
            /\ inst' = inst
            /\ env' = env
       /\ \A t \in Clients :
            (stack[t] = <<>> /\ stack'[t] # <<>> /\ Head(stack'[t]).pc = "xc_close") =>
               InSeq(Head(stack'[t]).c, inst[Head(stack'[t]).i].contexts)]_vars

\* close_context() returned for a context that was closed before, on a running browser
C10_Witness ==
    /\ done.op = "close_context"
    /\ done.note = "unknown_context"
    /\ inst[done.i].browser
    /\ inst[done.i].idle_time > 0

\* the step in which client t calls get_browser(): it returns at once, queues for the
\* lock, or goes on to initialize a new instance
GbCalled(t) ==
    /\ stack[t] = <<>>
    /\ \/ done'.op = "get_browser" /\ done'.t = t
       \/ /\ stack'[t] # <<>>
          /\ stack'[t][Len(stack'[t])].pc \in {"gb_lock", "gb_init"}

\* C11: once cleanup() has set _shutting_down, every get_browser() call is refused with
\* POOL_SHUTTING_DOWN in the step that makes it, without queueing, reusing or creating
\* anything, and _shutting_down never goes back to false.
C11_ShutdownIsFinal ==
    [][ /\ shutting_down => shutting_down'
        /\ \A t \in Clients :
              (shutting_down /\ GbCalled(t)) =>
                  /\ done' = Event(t, "get_browser", "POOL_SHUTTING_DOWN", 0, 0, "")
                  /\ stack'[t] = <<>>
                  /\ inst' = inst ]_vars

\* C12: when get_browser() takes its decision with no idle instance tracked while memory
\* or CPU usage is above its ceiling (there being nothing for an idle sweep to evict), it
\* fails with RESOURCE_LIMIT_EXCEEDED and constructs no instance.
C12_RefusesOverLimit ==
    [][\A t \in Clients :
         (GbRuns(t) /\ ~SomeIdle /\ over_limit) =>
             /\ done' = Event(t, "get_browser", "RESOURCE_LIMIT_EXCEEDED", 0, 0, "")
             /\ \A i \in Ids : inst'[i].made = inst[i].made]_vars

\* ------------------------------------ a pool of two browsers under resource pressure
\* BrowserPool(max_browsers=2)
TwoBrowsers == 2

EvictInit ==
    /\ browsers = <<>>
    /\ lock = 0
    /\ waiters = <<>>
    /\ shutting_down = FALSE
    /\ monitor = "none"
    /\ inst = [i \in Ids |-> NoInstance]
    /\ env = [i \in Ids |-> NoEnv]
    /\ stack = [t \in Tasks |-> <<>>]
    /\ ret = [t \in Tasks |-> NoRet]
    /\ done = NoEvent
    /\ direct = {}
    /\ config = PoolConfig(TwoBrowsers)
    /\ over_limit = FALSE
    /\ now = 0
    /\ limiters = NoLimiters
    /\ retry = NoRetry
    /\ sessions = NoneOpen

\* one client and the monitor task
EvictNext ==
    \/ Forget
    \/ StartMonitoring
    \/ Tick
    \/ Load
    \/ GetBrowser(1)
    \/ \E i \in 0..MaxIds : CloseBrowser(1, i)
    \/ \E i \in Ids, c \in CtxIds : CreateContext(1, i, c)
    \/ \E i \in Ids, c \in CtxIds : CloseContext(1, i, c)
    \/ \E t \in {1, MonTask} : PoolStep(t)

EvictSpec == EvictInit /\ [][EvictNext]_vars

\* the step in which _check_resource_limits() has chosen its victim and calls
\* close_browser() on it
Evicts(v) ==
    /\ stack[MonTask] # <<>>
    /\ stack[MonTask][Len(stack[MonTask])].pc # "rl_ret"
    /\ stack'[MonTask] # <<>>
    /\ stack'[MonTask][Len(stack'[MonTask])].pc = "rl_ret"
    /\ stack'[MonTask][Len(stack'[MonTask])].i = v

\* v is least recently used among the tracked instances in S
LeastRecent(v, S) == v \in S /\ \A j \in S : inst[v].idle_time >= inst[j].idle_time
Tracked == {i \in Ids : InSeq(i, browsers)}
NoSessions == {i \in Tracked : inst[i].contexts = <<>>}

\* C13: the victim of a resource check is the least recently used of the tracked
\* instances without contexts, and only when there is none the least recently used of
\* all tracked instances.
C13_EvictsIdleFirst ==
    [][\A v \in Ids :
         Evicts(v) => IF NoSessions # {} THEN LeastRecent(v, NoSessions)
                      ELSE LeastRecent(v, Tracked)]_vars

\* C14: within close(), the process is asked to close only once no context of the
\* instance is left to close and before the driver is asked to stop, and the driver is
\* asked to stop only once the close of the process has been attempted and has ended.
C14_TeardownOrder ==
    [][ /\ env'[1].closes > env[1].closes =>
              /\ inst[1].contexts = <<>>
              /\ env[1].stops = 0
              /\ \A t \in Clients : ~At(t, "xc_close")
        /\ env'[1].stops > env[1].stops =>
              /\ inst[1].contexts = <<>>
              /\ env[1].proc # "none" => env[1].closes >= 1
              /\ ~inst'[1].browser
              /\ \A t \in Clients : ~At(t, "xc_close") ]_vars

\* the close of the process was attempted and failed, and the driver is being stopped
C14_Witness ==
    /\ \E t \in Clients : At(t, "cl_pw") /\ Top(t).err = "process"
    /\ env[1].closes = 1
    /\ env[1].stops = 1
    /\ inst[1].contexts = <<>>

\* a close() that went through the teardown has just returned or raised
CloseEnded == done.op = "close" /\ done.note # "already_closing"

\* C15: when close() ends after the driver failed one of its teardown steps (a context
\* close, the process close, the driver stop), no context is left in the map, the process
\* of an initialized instance was asked to close and its driver was asked to stop, and
\* both handles are cleared.
C15_AllStepsAttempted ==
    (CloseEnded /\ env[done.i].failed # "") =>
        /\ inst[done.i].contexts = <<>>
        /\ env[done.i].closes = 1
        /\ env[done.i].stops = 1
        /\ ~inst[done.i].browser
        /\ ~inst[done.i].playwright

\* a context close failed, and the process and the driver were still shut down
C15_Witness ==
    /\ CloseEnded
    /\ env[done.i].failed = "context"
    /\ env[done.i].proc = "closed"
    /\ env[done.i].stops = 1

\* C16: close() raises BROWSER_CLEANUP_FAILED exactly when the driver failed one of its
\* teardown steps (a context close, the process close, the driver stop), the error being
\* that of the first failed step, and returns normally otherwise.
C16_FailsIffStepFailed ==
    CloseEnded =>
        /\ done.val = (IF env[done.i].failed = "" THEN "ok" ELSE "BROWSER_CLEANUP_FAILED")
        /\ done.note = env[done.i].failed

\* the step in which client t calls create_context() on instance i
CcCalled(t, i) ==
    /\ stack[t] = <<>>
    /\ \/ done'.op = "create_context" /\ done'.t = t /\ done'.i = i
       \/ stack'[t] # <<>> /\ Head(stack'[t]).pc = "cc_new" /\ Head(stack'[t]).i = i

\* a close() of instance i went through its teardown and has ended
Closed(i) ==
    /\ inst[i].is_closing
    /\ \A t \in Tasks : \A k \in 1..Len(stack[t]) :
          stack[t][k].i = i => stack[t][k].pc \notin {"cl_ctxs", "xc_close", "cl_proc", "cl_pw"}

\* no launch of instance i has succeeded so far, or a close() has since torn the launched
\* process down
NeverReadyOrClosed(i) == env[i].proc = "none" \/ (Closed(i) /\ env[i].closes >= 1)

C18_ClosingIsFinal ==
    [][\A i \in Ids :
         (inst[i].made /\ inst[i].is_closing /\ inst'[i].made) =>
             /\ inst'[i].is_closing
             /\ inst'[i].browser => inst[i].browser
             /\ env'[i].proc = "running" => env[i].proc = "running"
             /\ \A c \in CtxIds : InSeq(c, inst'[i].contexts) => InSeq(c, inst[i].contexts)
             /\ ~(done'.op = "get_browser" /\ done'.val = "ok" /\ done'.i = i)]_vars

\* ------------------------------------------------- the network isolation gate
\* request URLs, and their text as characters, a run of letters, digits and dots being
\* written as one token
Urls ==
    {"https://example.com/index.html", "https://blocked.com/", "https://unlisted.org",
     "http://blocked.com:8080/", "https://user@blocked.com/", "about:blank"}
Text(u) ==
    CASE u = "https://example.com/index.html" ->
            <<"https", ":", "/", "/", "example.com", "/", "index.html">>
      [] u = "https://blocked.com/" -> <<"https", ":", "/", "/", "blocked.com", "/">>
      [] u = "https://unlisted.org" -> <<"https", ":", "/", "/", "unlisted.org">>
      [] u = "http://blocked.com:8080/" ->
            <<"http", ":", "/", "/", "blocked.com", ":", "8080", "/">>
      [] u = "https://user@blocked.com/" ->
            <<"https", ":", "/", "/", "user", "@", "blocked.com", "/">>
      [] u = "about:blank" -> <<"about", ":", "blank">>

\* the domain names of allowed_domains and blocked_domains, as text
Domains == {<<"example.com">>, <<"blocked.com">>, <<"unlisted.org">>}

\* str.split(sep): the pieces of s between the occurrences of sep
RECURSIVE Split(_, _)
Split(s, sep) ==
    IF s = <<>> THEN << <<>> >>
    ELSE LET r == Split(Tail(s), sep)
         IN IF Head(s) = sep THEN << <<>> >> \o r
            ELSE << <<Head(s)>> \o r[1] >> \o Tail(r)

\* _handle_route(): "domain = url.split('/')[2].split(':')[0]", or the IndexError
NoDomain == <<"IndexError">>
Domain(url) ==
    LET parts == Split(url, "/")
    IN IF Len(parts) < 3 THEN NoDomain ELSE Split(parts[3], ":")[1]

\* _handle_route(): the call it makes on the route
RouteDecision(i, url) ==
    LET domain == Domain(url)
    IN IF domain = NoDomain THEN "continue"
       ELSE IF domain \in inst[i].blocked_domains THEN "blockedbyclient"
       ELSE IF inst[i].allowed_domains # {} /\ domain \notin inst[i].allowed_domains
       THEN "addressunreachable"
       ELSE "continue"

\* BrowserInstance._handle_route(route) for a request to u; when the driver fails the
\* call, a failed continue_() is followed by route.abort(), a failed abort is logged
HandleRoute(t, i, u) ==
    /\ CanCall(t)
    /\ HandedOut(i)
    /\ \E ok \in BOOLEAN :
         LET decision == RouteDecision(i, Text(u))
         IN Returns(t, <<>>, "_handle_route",
                    IF ok THEN decision
                    ELSE IF decision = "continue" THEN "abort" ELSE "abort_failed",
                    i, 0, u)
    /\ UNCHANGED <<poolVars, outside, inst, env>>

\* an instance constructed with network isolation and any allow and block lists
RouteInit ==
    /\ browsers = <<>>
    /\ lock = 0
    /\ waiters = <<>>
    /\ shutting_down = FALSE
    /\ monitor = "none"
    /\ \E allowed \in SUBSET Domains, blocked \in SUBSET Domains :
          inst = [i \in Ids |->
                    IF i # 1 THEN NoInstance
                    ELSE [NewInstance EXCEPT !.allowed_domains = allowed,
                                             !.blocked_domains = blocked]]
    /\ env = [i \in Ids |-> NoEnv]
    /\ stack = [t \in Tasks |-> <<>>]
    /\ ret = [t \in Tasks |-> NoRet]
    /\ done = NoEvent
    /\ direct = {1}
    /\ config = PoolConfig(MaxBrowsers)
    /\ over_limit = FALSE
    /\ now = 0
    /\ limiters = NoLimiters
    /\ retry = NoRetry
    /\ sessions = NoneOpen

RouteNext == \E t \in Clients, u \in Urls : HandleRoute(t, 1, u)

RouteSpec == RouteInit /\ [][RouteNext]_vars

\* the host a URL names: of "scheme://userinfo@host:port/path" the host, none without "//"
NoHost == <<>>
HostOf(url) ==
    LET parts == Split(url, "/")
    IN IF Len(parts) < 3 \/ parts[2] # <<>> THEN NoHost
       ELSE LET authority == parts[3]
                creds == Split(authority, "@")
                hostport == creds[Len(creds)]
            IN Split(hostport, ":")[1]

\* C19: the gate's outcome is decided by the request's host and the two lists alone: a
\* request whose URL names no host is continued; one to a host in blocked_domains is
\* aborted as blocked, also when the host is allowed; otherwise one to a host outside a
\* non-empty allowed_domains is aborted as not allowed; any other is continued.
GateOutcome(host, allowed, blocked) ==
    IF host = NoHost THEN "continue"
    ELSE IF host \in blocked THEN "blockedbyclient"
    ELSE IF allowed # {} /\ host \notin allowed THEN "addressunreachable"
    ELSE "continue"
C19_GateDecision ==
    (done.op = "_handle_route" /\ done.val \notin {"abort", "abort_failed"}) =>
        done.val = GateOutcome(HostOf(Text(done.note)), inst[done.i].allowed_domains,
                               inst[done.i].blocked_domains)

\* ------------------------------------------ the sessions of an isolated pool
\* a page of context c of instance i issues a request to u: the driver hands it to the
\* handler installed on the context, if any, and lets it proceed otherwise
Request(t, i, c, u) ==
    /\ CanCall(t)
    /\ HandedOut(i)
    /\ InSeq(c, inst[i].contexts)
    /\ env[i].proc = "running"
    /\ Returns(t, <<>>, "request",
               IF c \in inst[i].routed THEN RouteDecision(i, Text(u)) ELSE "continue",
               i, c, u)
    /\ UNCHANGED <<poolVars, outside, inst, env>>

\* BrowserPool(max_browsers=1, network_isolation=True, allowed_domains=["example.com"],
\* blocked_domains=["blocked.com"])
IsolatedConfig ==
    [PoolConfig(MaxBrowsers) EXCEPT !.network_isolation = TRUE,
                                    !.allowed_domains = {<<"example.com">>},
                                    !.blocked_domains = {<<"blocked.com">>}]

NetInit ==
    /\ browsers = <<>>
    /\ lock = 0
    /\ waiters = <<>>
    /\ shutting_down = FALSE
    /\ monitor = "none"
    /\ inst = [i \in Ids |-> NoInstance]
    /\ env = [i \in Ids |-> NoEnv]
    /\ stack = [t \in Tasks |-> <<>>]
    /\ ret = [t \in Tasks |-> NoRet]
    /\ done = NoEvent
    /\ direct = {}
    /\ config = IsolatedConfig
    /\ over_limit = FALSE
    /\ now = 0
    /\ limiters = NoLimiters
    /\ retry = NoRetry
    /\ sessions = NoneOpen

\* one client, its pages, and the monitor task
NetNext ==
    \/ Forget
    \/ StartMonitoring
    \/ Tick
    \/ Load
    \/ GetBrowser(1)
    \/ \E i \in 0..MaxIds : CloseBrowser(1, i)
    \/ \E i \in Ids, c \in CtxIds : CreateContext(1, i, c)
    \/ \E i \in Ids, c \in CtxIds : CloseContext(1, i, c)
    \/ \E i \in Ids, c \in CtxIds, u \in Urls : Request(1, i, c, u)
    \/ \E t \in {1, MonTask} : PoolStep(t)

NetSpec == NetInit /\ [][NetNext]_vars

\* C20: in a pool constructed with network isolation enabled, no request of a session of
\* one of its instances to a host in blocked_domains, or to a host outside a non-empty
\* allowed_domains, is let through.
Forbidden(host) ==
    \/ host \in config.blocked_domains
    \/ config.allowed_domains # {} /\ host \notin config.allowed_domains
C20_SessionsGated ==
    (done.op = "request" /\ config.network_isolation /\ done.i \notin direct
       /\ Forbidden(HostOf(Text(done.note))))
    => done.val # "continue"

\* ------------------------------------------------ the pool under a fair event loop
\* one client and the monitor task
LiveNext ==
    \/ Forget
    \/ StartMonitoring
    \/ Tick
    \/ Load
    \/ GetBrowser(1)
    \/ \E i \in 0..MaxIds : CloseBrowser(1, i)
    \/ \E i \in Ids, c \in CtxIds : CreateContext(1, i, c)
    \/ \E i \in Ids, c \in CtxIds : CloseContext(1, i, c)
    \/ \E t \in {1, MonTask} : PoolStep(t)

\* the event loop resumes every task that can run: a driver call ends, at the latest by
\* the timeout of the wait_for() around it (ClProc, ClPw, CbTimeout), the monitor's sleep
\* ends, a released lock wakes the first of its queue; the clients need not call anything
LiveSpec ==
    /\ Init
    /\ [][LiveNext]_vars
    /\ WF_vars(Forget)
    /\ WF_vars(PoolStep(1))
    /\ WF_vars(PoolStep(MonTask))

\* a close_browser() has just returned after the teardown of its instance hung until
\* wait_for() cut it off
HungClosed == done.op = "close_browser" /\ done.note = "timeout"

\* task t is in a close_browser() that awaits the close() of its instance
InCloseBrowser(t) == \E k \in 1..Len(stack[t]) : stack[t][k].pc = "cb_wait"

\* C21: a teardown that hangs does not block the pool: a close_browser() awaiting the
\* close() of its instance returns, and once a close_browser() has returned by its
\* timeout, every get_browser() that queues for the lock returns and every iteration the
\* monitor starts gets back to its sleep.
C21_HungShutdownDoesNotBlock ==
    /\ \A t \in {1, MonTask} : InCloseBrowser(t) ~> ~InCloseBrowser(t)
    /\ [](HungClosed =>
            [](/\ At(1, "gb_lock") => <>(stack[1] = <<>>)
               /\ (stack[MonTask] # <<>> /\ ~At(MonTask, "mon_sleep"))
                     => <>(stack[MonTask] = <<>> \/ At(MonTask, "mon_sleep"))))

\* C22: every context id in an instance's contexts map belongs to a context of a running
\* browser process, and when close() has gone through its teardown the map is empty.
C22_ContextsLive ==
    /\ \A i \in Ids : (inst[i].made /\ inst[i].contexts # <<>>) => env[i].proc = "running"
    /\ CloseEnded => inst[done.i].contexts = <<>>

\* ---------------------------------- a client that closes the instance it was handed
\* one client, which also calls close() on the instances get_browser() returned, and the
\* monitor task
HandleNext ==
    \/ Forget
    \/ StartMonitoring
    \/ Tick
    \/ Load
    \/ GetBrowser(1)
    \/ \E i \in 0..MaxIds : CloseBrowser(1, i)
    \/ \E i \in Ids : Close(1, i)
    \/ \E i \in Ids, c \in CtxIds : CreateContext(1, i, c)
    \/ \E i \in Ids, c \in CtxIds : CloseContext(1, i, c)
    \/ \E t \in {1, MonTask} : PoolStep(t)

HandleSpec == Init /\ [][HandleNext]_vars

\* some close_browser(i) has called close() and has yet to delete i from the dict
BeingUntracked(i) ==
    \E t \in Tasks : \E k \in 1..Len(stack[t]) :
        stack[t][k].pc = "cb_wait" /\ stack[t][k].i = i

\* C23: every instance the pool tracks has a running process or is being closed: an
\* instance whose close() has gone through and ended, whoever called it, is untracked,
\* at the latest when the close_browser() that called it deletes it.
C23_NoStaleInstance ==
    \A k \in 1..Len(browsers) :
        /\ Closed(browsers[k]) => BeingUntracked(browsers[k])
        /\ env[browsers[k]].proc = "running" \/ inst[browsers[k]].is_closing

\* C24: close_browser() raises nothing: it returns normally when the close() of a tracked
\* instance raised BROWSER_CLEANUP_FAILED or was cut off by the timeout, and for an id
\* the pool does not track it returns normally with the pool, its instances and the
\* driver untouched.
C24_CloseBrowserNeverRaises ==
    [][done'.op = "close_browser" =>
          /\ done'.val = "ok"
          /\ done'.note = "not_found" =>
                /\ ~InSeq(done'.i, browsers)
                /\ browsers' = browsers
                /\ inst' = inst
                /\ env' = env]_vars

\* a client's close_browser() returned after close() raised BROWSER_CLEANUP_FAILED
C24_Witness ==
    /\ done.op = "close_browser"
    /\ done.note = "close_failed"
    /\ done.val = "ok"
    /\ done.t \in Clients
    /\ ~InSeq(done.i, browsers)

\* no caller has opened a context and no instance is being closed
AllUntouched ==
    \A k \in 1..Len(browsers) :
        inst[browsers[k]].contexts = <<>> /\ ~inst[browsers[k]].is_closing

RlRequests == 2
RlWindow == 2
MaxTime == 4
RlConfig == [requests |-> RlRequests, window |-> RlWindow]

\* the endpoints registered with the limiter and the client ids (hosts) of the requests
Endpoints == {"/test", "/auth-test"}
RlClientIds == 1..2

\* SlidingWindowCounter.get_count() at time t: "sum(1 for ts in self.requests if ts > cutoff)"
GetCount(requests, t, window) ==
    Cardinality({k \in 1..Len(requests) : requests[k] > t - window})

\* "self.requests = [ts for ts in self.requests if ts > cutoff]"
Pruned(requests, cutoff) == SelectSeq(requests, LAMBDA ts : ts > cutoff)

\* is_rate_limited(): "if count >= config.requests"
OverLimit_OffByOne(count, cfg) == count > cfg.requests
OverLimit(count, cfg) == count >= cfg.requests

\* the counter of a key, created empty by is_rate_limited() when the key has none
Counter(key) == IF key \in DOMAIN limiters THEN limiters[key] ELSE <<>>
WithCounter(key, requests) ==
    [k \in DOMAIN limiters \cup {key} |-> IF k = key THEN requests ELSE limiters[k]]

\* RateLimiter.is_rate_limited(endpoint, client_id, config).  It runs without suspending:
\* the only await, add_request(), takes a lock that is never held across an await.
\* get_count() and add_request() each read the clock, the second d seconds later.  The
\* event has the client id as i and the returned "remaining" as c.
IsRateLimited(endpoint, client_id) ==
    LET key == <<endpoint, client_id>>
        requests == Counter(key)
        count == GetCount(requests, now, RlConfig.window)
    IN /\ IF OverLimit(count, RlConfig)
          THEN /\ limiters' = WithCounter(key, requests)
               /\ now' = now
               /\ done' = Event(0, "is_rate_limited", "RATE_LIMIT_EXCEEDED",
                                client_id, 0, endpoint)
          ELSE \E d \in 0..1 :
                  /\ now + d <= MaxTime
                  /\ now' = now + d
                  /\ limiters' = WithCounter(key,
                        Append(Pruned(requests, now' - RlConfig.window), now'))
                  /\ done' = Event(0, "is_rate_limited", "ok", client_id,
                                   RlConfig.requests - count - 1, endpoint)
       /\ UNCHANGED <<poolVars, sessions, direct, config, over_limit, retry, inst, env, stack, ret>>

\* cleanup_old_entries(): one round after its sleep: prune every counter, delete the
\* empty ones
CleanupOldEntries ==
    /\ LET kept == {k \in DOMAIN limiters :
                       Pruned(limiters[k], now - RlConfig.window) # <<>>}
       IN limiters' = [k \in kept |-> Pruned(limiters[k], now - RlConfig.window)]
    /\ done' = NoEvent
    /\ UNCHANGED <<poolVars, sessions, direct, config, over_limit, now, retry, inst, env,
                   stack, ret>>

\* a second passes
Advance ==
    /\ now < MaxTime
    /\ now' = now + 1
    /\ done' = NoEvent
    /\ UNCHANGED <<poolVars, sessions, direct, config, over_limit, limiters, retry, inst, env,
                   stack, ret>>

RateNext ==
    \/ Advance
    \/ CleanupOldEntries
    \/ \E endpoint \in Endpoints, client_id \in RlClientIds :
          IsRateLimited(endpoint, client_id)

RateSpec == Init /\ [][RateNext]_vars

\* the requests of a counter that lie in the window of length RlWindow ending at time a
InWindow(requests, a) ==
    {k \in 1..Len(requests) : a - RlWindow < requests[k] /\ requests[k] <= a}

MaxRetries == 4
Retryable == {"NETWORK_ERROR", "TIMEOUT_ERROR"}
NotRetryable == {"KeyError"}
FuncOutcomes == {"ok"} \cup Retryable \cup NotRetryable

\* wrapper(): "for attempt in range(config.max_retries)": the number of rounds
Attempts_PlusFirst(max_retries) == max_retries + 1
Attempts(max_retries) == max_retries

\* wrapper() returns or raises result
WrEnds(r, result) ==
    /\ retry' = [r EXCEPT !.pc = "done", !.result = result]
    /\ done' = Event(0, "with_retry", result, 0, 0, "")

\* the wrapped function is called: an empty range goes straight to "raise
\* last_exception", which with last_exception None raises a TypeError
WrCall ==
    /\ retry.pc \in {"idle", "done"}
    /\ \E n \in 0..MaxRetries :
         LET r == [NoRetry EXCEPT !.max_retries = n]
         IN IF Attempts(n) = 0
            THEN WrEnds(r, "TypeError")
            ELSE /\ retry' = [r EXCEPT !.pc = "func"]
                 /\ done' = NoEvent
    /\ UNCHANGED <<poolVars, sessions, direct, config, over_limit, now, limiters, inst, env, stack,
                   ret>>

\* wrapper(): "return await func(*args, **kwargs)" ends, or its except clause runs
WrFunc ==
    /\ retry.pc = "func"
    /\ \E out \in FuncOutcomes :
         LET r == [retry EXCEPT !.invoked = Append(@, out)]
         IN IF out = "ok" \/ out \in NotRetryable
            THEN WrEnds(r, out)
            ELSE LET e == [r EXCEPT !.last_exception = out]
                 IN IF retry.attempt < Attempts(retry.max_retries) - 1
                    THEN /\ retry' = [e EXCEPT !.pc = "sleep"]
                         /\ done' = NoEvent
                    ELSE WrEnds(e, e.last_exception)
    /\ UNCHANGED <<poolVars, sessions, direct, config, over_limit, now, limiters, inst, env, stack,
                   ret>>

\* wrapper(): "await asyncio.sleep(delay)" ends and the loop takes its next round
WrSleep ==
    /\ retry.pc = "sleep"
    /\ retry' = [retry EXCEPT !.pc = "func", !.attempt = @ + 1]
    /\ done' = NoEvent
    /\ UNCHANGED <<poolVars, sessions, direct, config, over_limit, now, limiters, inst, env, stack,
                   ret>>

RetryNext == WrCall \/ WrFunc \/ WrSleep

RetrySpec == Init /\ [][RetryNext]_vars

\* C28: a call of a wrapped function invokes it at most max_retries times and never
\* again after an invocation succeeded or raised an exception outside config.exceptions;
\* it returns the result of the successful invocation, and when max_retries invocations
\* have all raised retryable exceptions it raises the exception of the last of them.
C28_RetryBound ==
    LET n == Len(retry.invoked)
    IN /\ n <= retry.max_retries
       /\ \A k \in 1..(n - 1) : retry.invoked[k] \in Retryable
       /\ (retry.pc \in {"func", "sleep"}) => \A k \in 1..n : retry.invoked[k] \in Retryable
       /\ (retry.pc = "done" /\ n > 0) =>
             /\ retry.result = retry.invoked[n]
             /\ retry.invoked[n] \in Retryable => n = retry.max_retries

\* both invocations of a call with max_retries = 2 failed, and the second one's exception
\* was raised
C28_Witness ==
    /\ retry.pc = "done"
    /\ retry.max_retries = 2
    /\ retry.invoked = <<"NETWORK_ERROR", "TIMEOUT_ERROR">>
    /\ retry.result = "TIMEOUT_ERROR"

\* task t is queued for the pool's lock
QueuedForLock(t) == InSeq(t, waiters)

\* C29: no task ever waits for the pool's lock while the lock is its own: whatever a
\* client, the monitor's resource check or its idle sweep holds the lock for, none of
\* them reaches an "async with self._lock" before its own release.
C29_NoSelfWait ==
    \A t \in Tasks : ~(lock = t /\ QueuedForLock(t))

\* ------------------------------------------- two clients and a launch that may hang
\* initialize() awaits the driver's start and the browser's launch under no wait_for()
Launches(t) ==
    \/ InitPw(t)
    \/ InitLaunch(t)

\* the other steps of a client inside the pool's coroutines: each follows a lock release,
\* a return, or a driver call that a wait_for() bounds
Proceeds(t) ==
    \/ GbAdmit(t)
    \/ GbInit(t)
    \/ GbFail(t)
    \/ InitFail(t)
    \/ CcNew(t)
    \/ CcUndo(t)
    \/ XcClose(t)
    \/ ClCtxs(t)
    \/ ClProc(t)
    \/ ClPw(t)
    \/ CbLock(t)
    \/ CbTimeout(t)
    \/ CbWait(t)

HangNext ==
    \/ Forget
    \/ \E t \in Clients : GetBrowser(t)
    \/ \E t \in Clients, i \in 0..MaxIds : CloseBrowser(t, i)
    \/ \E t \in Clients, i \in Ids, c \in CtxIds : CreateContext(t, i, c)
    \/ \E t \in Clients : Launches(t)
    \/ \E t \in Clients : Proceeds(t)

\* the event loop resumes every task whose await has ended; the awaits of initialize()
\* end when the driver answers, which nothing in the code enforces
HangSpec ==
    /\ EvictInit
    /\ [][HangNext]_vars
    /\ WF_vars(Forget)
    /\ \A t \in Clients : WF_vars(Proceeds(t))

\* task t is suspended in the driver's start or launch of an initialize()
Launching(t) == At(t, "init_pw") \/ At(t, "init_launch")

\* C30: slow I/O never keeps the pool's lock for ever: a get_browser() or close_browser()
\* of a client that queues for the lock is admitted and returns, or at least reaches a
\* launch of its own, however long the launch in another client's get_browser() or the
\* teardown in another client's close_browser() lasts.
C30_LockNotHeldBySlowIO ==
    \A t \in Clients : QueuedForLock(t) ~> (stack[t] = <<>> \/ Launching(t))

\* ------------------------------------------------- a cleanup() that is cancelled
\* the frames a task only has between the entry and the exit of an "async with self.lock"
LockedPcs == {"gb_init", "gb_fail", "cb_wait", "sw_loop", "cu_loop", "st_loop"}

\* task t is inside a section the pool's lock protects
InSection(t) == \E k \in 1..Len(stack[t]) : stack[t][k].pc \in LockedPcs

\* some task is inside a protected section without being the lock's holder
Unprotected == \E t \in Tasks : InSection(t) /\ lock # t

\* a CancelledError lands in cleanup() while it awaits the lock, in its own
\* "async with self.lock" or in that of the close_browser() it called: the acquire()
\* takes the task out of the queue, the "async with" cleanup() was inside (if any)
\* releases the lock, "except asyncio.CancelledError" logs, and the finally clause
\* releases the lock if lock.locked(), whoever holds it; cleanup() returns normally
CancelCleanup(t) ==
    /\ ResumedIn(t, {"cu_lock", "cb_lock"})
    /\ stack[t][Len(stack[t])].pc \in {"cu_lock", "cu_loop"}
    /\ lock' = 0
    /\ waiters' = Remove(waiters, t)
    /\ Returns(t, <<>>, "cleanup", "ok", 0, 0, "cancelled")
    /\ UNCHANGED <<outside, browsers, shutting_down, monitor, inst, env>>

\* the pool shut down by a cleanup() that its caller may cancel, observed up to the
\* first state in which a task is in a protected section without the lock
CancelNext ==
    \/ ~Unprotected /\ Forget
    \/ ~Unprotected /\ StartMonitoring
    \/ ~Unprotected /\ Tick
    \/ ~Unprotected /\ Load
    \/ ~Unprotected /\ GetBrowser(1)
    \/ ~Unprotected /\ \E i \in 0..MaxIds : CloseBrowser(1, i)
    \/ ~Unprotected /\ \E i \in Ids, c \in CtxIds : CreateContext(1, i, c)
    \/ ~Unprotected /\ \E i \in Ids, c \in CtxIds : CloseContext(1, i, c)
    \/ ~Unprotected /\ Cleanup(ShutTask)
    \/ ~Unprotected /\ Stop(ShutTask)
    \/ ~Unprotected /\ ShutAwaited(ShutTask)
    \/ ~Unprotected /\ ShutLock(ShutTask)
    \/ ~Unprotected /\ CancelCleanup(ShutTask)
    \/ ~Unprotected /\ \E t \in {1, MonTask, ShutTask} : PoolStep(t)

CancelSpec == Init /\ [][CancelNext]_vars

\* C31: the pool's lock serializes the protected sections: a task inside one is the
\* lock's holder, so no two tasks are inside at once and no task but the holder has
\* released the lock, also when a cleanup() is cancelled part-way.
C31_Serialized == \A t \in Tasks : InSection(t) => lock = t

\* the monitor's idle sweep is inside the close_browser() of instance i, past the lock
SweepCloses(i) ==
    /\ \E k \in 1..Len(stack[MonTask]) : stack[MonTask][k].pc = "sw_loop"
    /\ \E k \in 1..Len(stack[MonTask]) :
          stack[MonTask][k].pc = "cb_wait" /\ stack[MonTask][k].i = i

\* the sweep has chosen instance i and awaits its close_browser()
SweepChose(i) ==
    /\ \E k \in 1..Len(stack[MonTask]) : stack[MonTask][k].pc = "sw_loop"
    /\ At(MonTask, "cb_lock")
    /\ Top(MonTask).i = i

\* C32: an instance the idle sweep starts to close has, at that moment, no open context
\* and has been unused for longer than idle_timeout, whatever its callers did to it
\* since the sweep chose it.
C32_SweepClosesOnlyIdle ==
    [][\A i \in Ids : (~SweepCloses(i) /\ SweepCloses(i)')
            => (inst[i].contexts = <<>> /\ IdleExpired(i))]_vars

\* where the monitor's iteration is, by the frame of _monitor_task()'s own call:
\* asleep, entering or inside _check_resource_limits(), or in _close_idle_browsers()
Phase(s) ==
    IF s = <<>> THEN "none"
    ELSE LET pc == s[Len(s)].pc
         IN IF pc = "mon_sleep" THEN "sleep"
            ELSE IF pc = "rl_lock" THEN "check"
            ELSE IF pc = "rl_ret" THEN "evict"
            ELSE "sweep"
Victim(s) == s[Len(s)].i

\* C33: a resource check evicts at most one instance per iteration of the monitor: the
\* victim is chosen once, right after the sleep, the check closes no other instance and
\* is not entered again before the next sleep, even if the usage is still over a limit;
\* an iteration that finds the usage within both limits enters no eviction at all.
C33_OneEvictionPerCycle ==
    [][LET p == Phase(stack[MonTask])
           q == Phase(stack'[MonTask])
       IN /\ q = "evict" =>
                \/ p \in {"sleep", "check"}
                \/ p = "evict" /\ Victim(stack'[MonTask]) = Victim(stack[MonTask])
          /\ q = "check" => p \in {"sleep", "check"}
          /\ (p = "sleep" /\ ~over_limit) => q \notin {"check", "evict"}
          /\ (p = "evict" /\ stack'[MonTask] # stack[MonTask] /\ browsers' # browsers)
                => browsers' = Remove(browsers, Victim(stack[MonTask]))]_vars

\* the resource check has closed its victim while another instance is tracked and the
\* usage is still over the limit
C33_Witness ==
    /\ At(MonTask, "rl_ret")
    /\ ret[MonTask].val = "ok"
    /\ ret[MonTask].note = "closed"
    /\ ~InSeq(Top(MonTask).i, browsers)
    /\ browsers # <<>>
    /\ over_limit

\* a step that starts a _monitor_task(): the monitor's frames become those of a loop at
\* its first sleep, and not because an iteration ended
LoopStarts ==
    /\ stack'[MonTask] # stack[MonTask]
    /\ stack'[MonTask] = <<Frame("mon_sleep", 0, 0, <<>>, "")>>
    /\ done'.op # "_close_idle_browsers"

\* a cleanup() or a stop() has just returned
ShutdownReturned == done.op \in {"cleanup", "stop"}

\* the step in which a cleanup() or a stop() is called
ShutdownBegins ==
    /\ stack[ShutTask] = <<>>
    /\ stack'[ShutTask] # <<>> \/ (done'.t = ShutTask /\ done'.op \in {"cleanup", "stop"})

\* C34: a monitor loop is only started while none is running, so there is never a second
\* one; a cleanup() or stop() ends the loop that runs when it is called, before it does
\* anything else, and the monitor task is in no resource check and no sweep from then on,
\* also once the shutdown has returned, unless a start_monitoring() starts a loop anew.
C34_OneMonitorLoop ==
    /\ [][LoopStarts => (stack[MonTask] = <<>> /\ monitor # "running")]_vars
    /\ [][(stack[MonTask] = <<>> /\ stack'[MonTask] # <<>>) => LoopStarts]_vars
    /\ [][ShutdownBegins => (monitor' # "running" /\ stack'[MonTask] = <<>>)]_vars
    /\ [](monitor # "running" => stack[MonTask] = <<>>)

\* a shutdown has returned that had a running monitor to stop
C34_Witness ==
    /\ ShutdownReturned
    /\ monitor = "done"
    /\ stack[MonTask] = <<>>
    /\ shutting_down

\* some task is inside the close() of instance i
TornDownBy(t, i) ==
    \E k \in 1..Len(stack[t]) :
        stack[t][k].i = i /\ stack[t][k].pc \in {"cl_ctxs", "cl_proc", "cl_pw"}
InTeardown(i) == \E t \in Tasks : TornDownBy(t, i)

\* C35: when close_browser() returns after removing an instance from the pool, also by
\* its timeout, the close of the instance's process and the stop of its driver have both
\* been asked of the driver, or a close() of the instance is still under way that will:
\* no removed instance is left with a process and a driver nothing will close.
C35_RemovedMeansTornDown ==
    (done.op = "close_browser" /\ done.note # "not_found")
        => \/ env[done.i].closes >= 1 /\ env[done.i].stops >= 1
           \/ InTeardown(done.i)

\* =============================================== the contexts of one instance
\* One initialized instance that its callers open and close contexts on. A context
\* object of the driver is a number; sessions.contexts[c] is the object the dict holds
\* under context id c, 0 for none; sessions.asked are the objects whose close() was asked.
MaxObjs == 3          \* context objects the driver creates in a run
notSessions == <<poolVars, direct, config, over_limit, now, limiters, retry, inst, env,
                 stack, ret>>

\* create_context(c) called on the instance, whose browser is set:
\* "context = await self.browser.new_context(**context_params)"
NewContextCall(t, c) ==
    /\ sessions.call[t] = NoCall
    /\ sessions.made < MaxObjs
    /\ sessions' = [sessions EXCEPT !.call[t] = [pc |-> "new_context", id |-> c, obj |-> 0]]
    /\ done' = NoEvent
    /\ UNCHANGED notSessions

\* create_context(): what a failure after new_context() returned leaves in the dict
StoredOnFailure_StoredFirst(contexts, c, o) == [contexts EXCEPT ![c] = o]
StoredOnFailure(contexts, c, o) == contexts

\* create_context(): new_context() ends. It raised; or it returned and a later statement
\* raised, and the except branch awaits context.close(); or the context is stored:
\* "self.contexts[context_id] = context"
NewContextEnds(t) ==
    /\ sessions.call[t].pc = "new_context"
    /\ LET c == sessions.call[t].id
           o == sessions.made + 1
       IN \E out \in {"ok", "failed", "partial"} :
            CASE out = "ok" ->
                   /\ sessions' = [sessions EXCEPT !.contexts[c] = o,
                                                   !.live = @ \cup {o},
                                                   !.made = o,
                                                   !.call[t] = NoCall]
                   /\ done' = Event(t, "create_context", "ok", o, c, "")
              [] out = "failed" ->
                   /\ sessions' = [sessions EXCEPT !.call[t] = NoCall]
                   /\ done' = Event(t, "create_context", "CONTEXT_CREATION_FAILED", 0, c, "")
              [] out = "partial" ->
                   /\ sessions' = [sessions EXCEPT
                         !.contexts = StoredOnFailure(@, c, o),
                         !.live = @ \cup {o},
                         !.asked = @ \cup {o},
                         !.made = o,
                         !.call[t] = [pc |-> "undo", id |-> c, obj |-> o]]
                   /\ done' = NoEvent
    /\ UNCHANGED notSessions

\* create_context(): the except branch's "await context.close()" ends, an error of it is
\* logged and dropped; raise CONTEXT_CREATION_FAILED
UndoEnds(t) ==
    /\ sessions.call[t].pc = "undo"
    /\ LET c == sessions.call[t].id
           o == sessions.call[t].obj
       IN \E closed \in BOOLEAN :
            /\ sessions' = [sessions EXCEPT
                  !.live = IF closed THEN @ \ {o} ELSE @,
                  !.call[t] = NoCall]
            /\ done' = Event(t, "create_context", "CONTEXT_CREATION_FAILED", o, c,
                             IF closed THEN "undone" ELSE "undo_failed")
    /\ UNCHANGED notSessions

\* close_context(c) called: "if context_id not in self.contexts: return", else
\* "context = self.contexts[context_id]" and the awaits of the pages' and the context's
\* close()
CloseContextCall(t, c) ==
    /\ sessions.call[t] = NoCall
    /\ IF sessions.contexts[c] = 0
       THEN /\ done' = Event(t, "close_context", "ok", 0, c, "unknown_context")
            /\ UNCHANGED sessions
       ELSE /\ sessions' = [sessions EXCEPT
                  !.asked = @ \cup {sessions.contexts[c]},
                  !.call[t] = [pc |-> "closing", id |-> c, obj |-> sessions.contexts[c]]]
            /\ done' = NoEvent
    /\ UNCHANGED notSessions

\* close_context(): "await context.close()" ends; "del self.contexts[context_id]", in
\* the try body or in the except branch, deletes whatever the dict holds under the id
ContextCloseEnds(t) ==
    /\ sessions.call[t].pc = "closing"
    /\ LET c == sessions.call[t].id
           o == sessions.call[t].obj
       IN \E out \in {"ok", "context_close_failed"}, gone \in BOOLEAN :
            /\ out = "ok" => gone
            /\ sessions' = [sessions EXCEPT
                  !.live = IF gone THEN @ \ {o} ELSE @,
                  !.contexts[c] = 0,
                  !.call[t] = NoCall]
            /\ done' = Event(t, "close_context", "ok", o, c, out)
    /\ UNCHANGED notSessions

SessNext ==
    \/ \E t \in Clients, c \in CtxIds : NewContextCall(t, c)
    \/ \E t \in Clients : NewContextEnds(t)
    \/ \E t \in Clients : UndoEnds(t)
    \/ \E t \in Clients, c \in CtxIds : CloseContextCall(t, c)
    \/ \E t \in Clients : ContextCloseEnds(t)

SessSpec == Init /\ [][SessNext]_vars

\* C36: every context object alive in the driver whose close() nobody has asked for is
\* in the instance's contexts dict: no create_context() with an id already open, or open
\* again while a close_context() of it is under way, leaves a context out of the dict.
C36_LiveContextsTracked ==
    \A o \in sessions.live \ sessions.asked :
        \E c \in CtxIds : sessions.contexts[c] = o

\* A create_context() has just raised after new_context() had returned context done.i
FailedAfterPartial ==
    done.op = "create_context" /\ done.val = "CONTEXT_CREATION_FAILED" /\ done.i # 0
InDict(o) == \E c \in CtxIds : sessions.contexts[c] = o
UndoStep(t) ==
    /\ sessions'.call[t] # sessions.call[t]
    /\ sessions.call[t].pc = "undo" \/ sessions'.call[t].pc = "undo"

\* C38: a create_context() that fails after the driver returned a context raises
\* CONTEXT_CREATION_FAILED only from the step that ends its awaited close() of that
\* context, a close() that succeeded leaves the context not alive, and no step of the
\* failing call changes the contexts dict: the context is never in it.
C38_PartialOpenUndone ==
    /\ [][FailedAfterPartial' =>
            /\ sessions.call[done'.t].pc = "undo"
            /\ sessions.call[done'.t].obj = done'.i
            /\ done'.i \in sessions.asked
            /\ done'.note = "undone" => done'.i \notin sessions'.live]_vars
    /\ [][\A t \in Clients : UndoStep(t) => sessions'.contexts = sessions.contexts]_vars
    /\ [](\A t \in Clients : sessions.call[t].pc = "undo" =>
            /\ sessions.call[t].obj \in sessions.asked
            /\ ~InDict(sessions.call[t].obj))
    /\ [](FailedAfterPartial => ~InDict(done.i))
C38_Witness ==
    /\ FailedAfterPartial
    /\ done.note = "undone"
    /\ done.i \notin sessions.live
    /\ sessions.contexts[done.c] \notin {0, done.i}

\* An initialize() of instance done.i has just raised
InitializeFailed == done.op = "initialize" /\ done.val # "ok"

\* C37: an initialize() that fails raises BROWSER_INITIALIZATION_FAILED, whatever its
\* "await self.close()" did, and leaves self.browser and self._playwright unset.
C37_InitFailsAsInitFailure ==
    InitializeFailed =>
        /\ done.val = "BROWSER_INITIALIZATION_FAILED"
        /\ ~inst[done.i].browser
        /\ ~inst[done.i].playwright
====
